---- MODULE Spec2Model ----
(***************************************************************************)
(* SnapScroll (cs-snap-lib.js): breakpoint resolution, item layout, drag   *)
(* lifecycle, snapping and resize reconciliation of the carousel widget.   *)
(*                                                                         *)
(* Numbers.  JavaScript numbers are modelled as exact extended rationals   *)
(* [n, d]: d > 0 is the fraction n/d in lowest terms, [1,0] is Infinity,   *)
(* [-1,0] is -Infinity and [0,0] is NaN, so that x/0, 0*Infinity and       *)
(* Math.round behave as in the source.  Floating-point rounding error is   *)
(* not modelled.                                                           *)
(*                                                                         *)
(* Objects.  A partial object (a breakpoint override) is a function whose  *)
(* DOMAIN is the set of fields it has; a nullable reference is a sequence  *)
(* of length 0 (null) or 1.  Breakpoint keys are canonical numeric         *)
(* property names, for which Number(key) and responsive[number] round-trip.*)
(***************************************************************************)
EXTENDS Integers, Sequences, FiniteSets, TLC

VARIABLES
    options,             \* this.options: itemsToShow, itemsToScroll, gap, responsive
    offsetWidth,         \* this.container.offsetWidth
    containerScrollLeft, \* this.container.scrollLeft
    isDragging,          \* this.isDragging
    startX,              \* this.startX
    scrollLeft,          \* this.scrollLeft (offset recorded at drag start)
    currentBreakpoint,   \* this.currentBreakpoint: <<>> (null) or <<record>>
    itemStyleWidth,      \* item.style.width of every item, in px
    last,                \* the step taken most recently
    event,               \* the pointer event that step received, if any
    wasDragging,         \* this.isDragging as that step found it
    request,             \* the scroll command that step issued to the container
    thrown,              \* the exception that step raised, "none" if none
    scrollBehavior       \* this.container.style.scrollBehavior in effect

vars == <<options, offsetWidth, containerScrollLeft, isDragging, startX,
          scrollLeft, currentBreakpoint, itemStyleWidth, last, event,
          wasDragging, request, thrown, scrollBehavior>>

----------------------------------------------------------------------------
(* Bounds of the model *)

MaxItems == 2
MaxWidth == 3
MaxScroll == 3
MaxX == 1
MaxIndex == 2

\* candidate breakpoint keys (minimum container widths)
KeyChoices == {0, 2}

Fields == {"itemsToShow", "itemsToScroll"}

----------------------------------------------------------------------------
(* JavaScript number arithmetic *)

Abs(i) == IF i < 0 THEN -i ELSE i

RECURSIVE GCD(_, _)
GCD(a, b) == IF b = 0 THEN a ELSE GCD(b, a % b)

Sign(i) == IF i > 0 THEN 1 ELSE IF i < 0 THEN -1 ELSE 0

\* the number n/d, d >= 0
Rat(n, d) ==
    IF d = 0 THEN [n |-> Sign(n), d |-> 0]
    ELSE LET g == GCD(Abs(n), d) IN [n |-> n \div g, d |-> d \div g]

Num(i) == [n |-> i, d |-> 1]
NaN == [n |-> 0, d |-> 0]

IsFinite(a) == a.d # 0

RAdd(a, b) ==
    IF a.d = 0 /\ b.d = 0
    THEN (IF a.n = b.n THEN a ELSE NaN)
    ELSE Rat(a.n * b.d + b.n * a.d, a.d * b.d)

RNeg(a) == [n |-> -a.n, d |-> a.d]

RSub(a, b) == RAdd(a, RNeg(b))

RMul(a, b) == Rat(a.n * b.n, a.d * b.d)

\* a / b
RDiv(a, b) ==
    IF b.n < 0 THEN Rat(-(a.n * b.d), a.d * (-b.n))
    ELSE Rat(a.n * b.d, a.d * b.n)

\* Math.round: the nearest integer, ties towards +Infinity
MathRound(a) ==
    IF a.d = 0 THEN a ELSE Num((2 * a.n + a.d) \div (2 * a.d))

\* a || b on numbers, where has says whether a is defined
OrElse(has, a, b) == IF has /\ a # 0 THEN a ELSE b

----------------------------------------------------------------------------
(* Breakpoint resolution *)

RECURSIVE SortDesc(_)
SortDesc(S) ==
    IF S = {} THEN <<>>
    ELSE LET m == CHOOSE x \in S : \A y \in S : y <= x
         IN <<m>> \o SortDesc(S \ {m})

\* the ascending sort with its comparator reversed
SortAsc_reversed(S) == SortDesc(S)

RECURSIVE SortAsc(_)
SortAsc(S) ==
    IF S = {} THEN <<>>
    ELSE LET m == CHOOSE x \in S : \A y \in S : x <= y
         IN <<m>> \o SortAsc(S \ {m})

\* the loop of getItemsToShow from position i: the first key (in the given
\* order) that the container width reaches, <<>> when there is none
RECURSIVE FirstMatch(_, _, _)
FirstMatch(sorted, i, containerWidth) ==
    IF i > Len(sorted) THEN <<>>
    ELSE IF containerWidth >= sorted[i] THEN <<sorted[i]>>
    ELSE FirstMatch(sorted, i + 1, containerWidth)

\* the loop of getItemsToScroll from position i with activeBreakpoint = active:
\* keeps the latest matching key and stops at the first key above the width
RECURSIVE LastMatch(_, _, _, _)
LastMatch(sorted, i, containerWidth, active) ==
    IF i > Len(sorted) THEN active
    ELSE IF containerWidth >= sorted[i]
         THEN LastMatch(sorted, i + 1, containerWidth, <<sorted[i]>>)
    ELSE active

Has(config, f) == f \in DOMAIN config

\* getItemsToShow without the break: every matching breakpoint, largest
\* first, overwrites itemsToShow, so the smallest matching key wins and a
\* field it lacks keeps the value of the larger one
RECURSIVE CascadeShow(_, _, _, _, _)
CascadeShow(responsive, sorted, i, containerWidth, acc) ==
    IF i > Len(sorted) THEN acc
    ELSE IF containerWidth >= sorted[i]
         THEN LET config == responsive[sorted[i]]
              IN CascadeShow(responsive, sorted, i + 1, containerWidth,
                     OrElse(Has(config, "itemsToShow"),
                            IF Has(config, "itemsToShow") THEN config.itemsToShow ELSE 0,
                            acc))
    ELSE CascadeShow(responsive, sorted, i + 1, containerWidth, acc)

getItemsToShow_cascading(opts, containerWidth) ==
    IF opts.responsive = <<>> THEN opts.itemsToShow
    ELSE CascadeShow(opts.responsive[1], SortDesc(DOMAIN opts.responsive[1]), 1,
                     containerWidth, opts.itemsToShow)

getItemsToShow(opts, containerWidth) ==
    IF opts.responsive = <<>> THEN opts.itemsToShow
    ELSE LET responsive == opts.responsive[1]
             hit == FirstMatch(SortDesc(DOMAIN responsive), 1, containerWidth)
         IN IF hit = <<>> THEN opts.itemsToShow
            ELSE LET config == responsive[hit[1]]
                 IN OrElse(Has(config, "itemsToShow"),
                           IF Has(config, "itemsToShow") THEN config.itemsToShow ELSE 0,
                           opts.itemsToShow)

\* the retired (commented-out) descending variant of getItemsToScroll
getItemsToScrollDescending(opts, containerWidth) ==
    IF opts.responsive = <<>> THEN opts.itemsToScroll
    ELSE LET responsive == opts.responsive[1]
             hit == FirstMatch(SortDesc(DOMAIN responsive), 1, containerWidth)
         IN IF hit = <<>> THEN opts.itemsToScroll
            ELSE LET config == responsive[hit[1]]
                 IN OrElse(Has(config, "itemsToScroll"),
                           IF Has(config, "itemsToScroll") THEN config.itemsToScroll ELSE 0,
                           opts.itemsToScroll)

\* getItemsToScroll with activeBreakpoint starting at the smallest key
\* instead of null
getItemsToScroll_firstKey(opts, containerWidth) ==
    IF opts.responsive = <<>> \/ DOMAIN opts.responsive[1] = {}
    THEN opts.itemsToScroll
    ELSE LET responsive == opts.responsive[1]
             sorted == SortAsc(DOMAIN responsive)
             activeBreakpoint ==
                 LastMatch(sorted, 1, containerWidth, <<sorted[1]>>)
             config == responsive[activeBreakpoint[1]]
         IN IF Has(config, "itemsToScroll") THEN config.itemsToScroll
            ELSE opts.itemsToScroll

getItemsToScroll(opts, containerWidth) ==
    IF opts.responsive = <<>> THEN opts.itemsToScroll
    ELSE LET responsive == opts.responsive[1]
             activeBreakpoint ==
                 LastMatch(SortAsc(DOMAIN responsive), 1, containerWidth, <<>>)
         IN IF activeBreakpoint = <<>> THEN opts.itemsToScroll
            ELSE LET config == responsive[activeBreakpoint[1]]
                 IN IF Has(config, "itemsToScroll") THEN config.itemsToScroll
                    ELSE opts.itemsToScroll

----------------------------------------------------------------------------
(* Layout and scroll arithmetic *)

getItemWidth(opts, containerWidth) ==
    RSub(RDiv(Num(containerWidth), Num(getItemsToShow(opts, containerWidth))),
         Num(opts.gap))

\* the left offset scrollTo(index) asks the container for
scrollToLeft(opts, containerWidth, index) ==
    LET itemWidth == RAdd(getItemWidth(opts, containerWidth), Num(opts.gap))
    IN RMul(RMul(itemWidth, Num(getItemsToShow(opts, containerWidth))), index)

\* the index snapToNearest passes to scrollTo
snapIndex(opts, containerWidth, scrollPos) ==
    LET itemWidth == getItemWidth(opts, containerWidth)
    IN MathRound(RDiv(Num(scrollPos), RAdd(itemWidth, Num(opts.gap))))

\* the retired prev()/next(): the base option instead of getItemsToScroll()
scrollAmount_baseOption(opts, containerWidth) ==
    LET itemWidth == RAdd(getItemWidth(opts, containerWidth), Num(opts.gap))
    IN RMul(itemWidth, Num(opts.itemsToScroll))

\* the amount prev() and next() scroll by
scrollAmount(opts, containerWidth) ==
    LET itemWidth == RAdd(getItemWidth(opts, containerWidth), Num(opts.gap))
    IN RMul(itemWidth, Num(getItemsToScroll(opts, containerWidth)))

\* what the container's scrollLeft reads after it is assigned v: a non-finite
\* value is taken as 0 and the offset is kept inside the scrollable range
SetScrollLeft(v) ==
    IF ~IsFinite(v) THEN 0
    ELSE LET px == v.n \div v.d
         IN IF px < 0 THEN 0 ELSE IF px > MaxScroll THEN MaxScroll ELSE px

NoRequest == [op |-> "none", left |-> Num(0)]

----------------------------------------------------------------------------
(* handleResize, as functions of the state it reads *)

prevItemsToShow(opts, cb) ==
    OrElse(cb # <<>>, IF cb # <<>> THEN cb[1].itemsToShow ELSE 0, opts.itemsToShow)

prevItemsToScroll(opts, cb) ==
    OrElse(cb # <<>>, IF cb # <<>> THEN cb[1].itemsToScroll ELSE 0, opts.itemsToScroll)

resizeChanged(opts, containerWidth, cb) ==
    \/ getItemsToShow(opts, containerWidth) # prevItemsToShow(opts, cb)
    \/ getItemsToScroll(opts, containerWidth) # prevItemsToScroll(opts, cb)

\* newScrollPos of handleResize
newScrollPos(opts, containerWidth, cb, scrollPos) ==
    LET itemWidth == RAdd(getItemWidth(opts, containerWidth), Num(opts.gap))
        currentIndex ==
            MathRound(RDiv(Num(scrollPos),
                           RMul(itemWidth, Num(prevItemsToShow(opts, cb)))))
    IN RMul(currentIndex,
            RMul(itemWidth, Num(getItemsToShow(opts, containerWidth))))

resizedBreakpoint(opts, containerWidth, cb) ==
    IF resizeChanged(opts, containerWidth, cb)
    THEN <<[itemsToShow |-> getItemsToShow(opts, containerWidth),
            itemsToScroll |-> getItemsToScroll(opts, containerWidth)]>>
    ELSE cb

----------------------------------------------------------------------------
(* Inputs *)

Overrides == UNION {[D -> 0..MaxItems] : D \in SUBSET Fields}

ResponsiveMaps == UNION {[K -> Overrides] : K \in SUBSET KeyChoices}

\* null, or a breakpoint map
Responsives == {<<>>} \cup {<<m>> : m \in ResponsiveMaps}

Gaps == {1}

AllOptions ==
    [itemsToShow : 1..MaxItems, itemsToScroll : 1..MaxItems,
     gap : Gaps, responsive : Responsives]

\* the demo page's breakpoints, scaled to the model's widths: a full
\* override, and one that sets itemsToShow alone
DemoResponsive ==
    (0 :> [itemsToShow |-> 1, itemsToScroll |-> 1]) @@ (2 :> [itemsToShow |-> 2])

\* a breakpoint map whose override is not a positive count
ZeroResponsive == (2 :> [itemsToShow |-> 0, itemsToScroll |-> 0])

WidgetOptions ==
    [itemsToShow : 1..MaxItems, itemsToScroll : 1..MaxItems,
     gap : Gaps, responsive : {<<>>, <<DemoResponsive>>, <<ZeroResponsive>>}]

\* pointer events: a mouse event carries pageX, a touch event touches[0].pageX
Events == [kind : {"mouse", "touch"}, x : 0..MaxX]

\* e.pageX || e.touches[0].pageX can be evaluated: a mouse event has no
\* touches, so a mouse event at pageX 0 raises a TypeError
CanReadX(e) == e.kind = "touch" \/ e.x # 0

NoEvent == [kind |-> "none", x |-> 0]

UpdateConfigs ==
    {<<>>} \cup {[itemsToShow |-> v] : v \in 1..MaxItems}

----------------------------------------------------------------------------
(* State after construction *)

Constructed(opts, w) ==
    /\ options = opts
    /\ offsetWidth = w
    /\ containerScrollLeft = 0
    /\ isDragging = FALSE
    /\ startX = 0
    /\ scrollLeft = 0
    /\ currentBreakpoint =
          IF opts.responsive # <<>> THEN resizedBreakpoint(opts, w, <<>>) ELSE <<>>
    /\ itemStyleWidth = getItemWidth(opts, w)
    /\ scrollBehavior = "smooth"
    /\ last = "constructor"
    /\ event = NoEvent
    /\ wasDragging = FALSE
    /\ request = NoRequest
    /\ thrown = "none"

Init == \E opts \in WidgetOptions, w \in 0..MaxWidth : Constructed(opts, w)

InitResolve == \E opts \in AllOptions, w \in 0..MaxWidth : Constructed(opts, w)

----------------------------------------------------------------------------
(* Steps *)

\* what every step records about itself
Ran(name, e, req, exc) ==
    /\ last' = name
    /\ event' = e
    /\ wasDragging' = isDragging
    /\ request' = req
    /\ thrown' = exc

\* the host lays the container out at another width
ResizeContainer(w) ==
    /\ w # offsetWidth
    /\ offsetWidth' = w
    /\ Ran("layout", NoEvent, NoRequest, "none")
    /\ UNCHANGED <<options, containerScrollLeft, isDragging, startX, scrollLeft,
                   currentBreakpoint, itemStyleWidth, scrollBehavior>>

\* the user or a running smooth scroll moves the container
HostScroll(x) ==
    /\ x # containerScrollLeft
    /\ containerScrollLeft' = x
    /\ Ran("scroll", NoEvent, NoRequest, "none")
    /\ UNCHANGED <<options, offsetWidth, isDragging, startX, scrollLeft,
                   currentBreakpoint, itemStyleWidth, scrollBehavior>>

handleResize ==
    /\ IF resizeChanged(options, offsetWidth, currentBreakpoint)
       THEN /\ currentBreakpoint' =
                   resizedBreakpoint(options, offsetWidth, currentBreakpoint)
            /\ itemStyleWidth' = getItemWidth(options, offsetWidth)
            /\ LET pos == newScrollPos(options, offsetWidth, currentBreakpoint,
                                       containerScrollLeft)
               IN /\ containerScrollLeft' = SetScrollLeft(pos)
                  /\ Ran("handleResize", NoEvent,
                         [op |-> "scrollLeft", left |-> pos], "none")
       ELSE /\ Ran("handleResize", NoEvent, NoRequest, "none")
            /\ UNCHANGED <<currentBreakpoint, itemStyleWidth, containerScrollLeft>>
    /\ UNCHANGED <<options, offsetWidth, isDragging, startX, scrollLeft,
                   scrollBehavior>>

update(config) ==
    /\ options' = [f \in DOMAIN options |->
                      IF f \in DOMAIN config THEN config[f] ELSE options[f]]
    /\ itemStyleWidth' = getItemWidth(options', offsetWidth)
    /\ Ran("update", NoEvent, NoRequest, "none")
    /\ UNCHANGED <<offsetWidth, containerScrollLeft, isDragging, startX,
                   scrollLeft, currentBreakpoint, scrollBehavior>>

\* startDrag that returns at once when a drag is already active
startDrag_guarded(e) ==
    /\ isDragging' = TRUE
    /\ IF CanReadX(e) /\ ~isDragging
       THEN /\ startX' = e.x
            /\ scrollLeft' = containerScrollLeft
            /\ scrollBehavior' = "auto"
            /\ Ran("startDrag", e, NoRequest, "none")
       ELSE /\ Ran("startDrag", e, NoRequest,
                   IF isDragging THEN "none" ELSE "TypeError")
            /\ UNCHANGED <<startX, scrollLeft, scrollBehavior>>
    /\ UNCHANGED <<options, offsetWidth, containerScrollLeft, currentBreakpoint,
                   itemStyleWidth>>

startDrag(e) ==
    /\ isDragging' = TRUE
    /\ IF CanReadX(e)
       THEN /\ startX' = e.x
            /\ scrollLeft' = containerScrollLeft
            /\ scrollBehavior' = "auto"
            /\ Ran("startDrag", e, NoRequest, "none")
       ELSE /\ Ran("startDrag", e, NoRequest, "TypeError")
            /\ UNCHANGED <<startX, scrollLeft, scrollBehavior>>
    /\ UNCHANGED <<options, offsetWidth, containerScrollLeft, currentBreakpoint,
                   itemStyleWidth>>

drag(e) ==
    /\ IF ~isDragging
       THEN /\ Ran("drag", e, NoRequest, "none")
            /\ UNCHANGED containerScrollLeft
       ELSE IF ~CanReadX(e)
       THEN /\ Ran("drag", e, NoRequest, "TypeError")
            /\ UNCHANGED containerScrollLeft
       ELSE LET walk == (e.x - startX) * 2
                pos == Num(scrollLeft - walk)
            IN /\ Ran("drag", e, [op |-> "scrollLeft", left |-> pos], "none")
               /\ containerScrollLeft' =
                     IF scrollBehavior = "auto" THEN SetScrollLeft(pos)
                     ELSE containerScrollLeft
    /\ UNCHANGED <<options, offsetWidth, isDragging, startX, scrollLeft,
                   currentBreakpoint, itemStyleWidth, scrollBehavior>>

endDrag ==
    /\ isDragging' = FALSE
    /\ scrollBehavior' = "smooth"
    /\ Ran("endDrag", NoEvent,
           [op |-> "scrollTo",
            left |-> scrollToLeft(options, offsetWidth,
                        snapIndex(options, offsetWidth, containerScrollLeft))],
           "none")
    /\ UNCHANGED <<options, offsetWidth, containerScrollLeft, startX, scrollLeft,
                   currentBreakpoint, itemStyleWidth>>

prev ==
    /\ Ran("prev", NoEvent,
           [op |-> "scrollBy", left |-> RNeg(scrollAmount(options, offsetWidth))],
           "none")
    /\ UNCHANGED <<options, offsetWidth, containerScrollLeft, isDragging, startX,
                   scrollLeft, currentBreakpoint, itemStyleWidth, scrollBehavior>>

next ==
    /\ Ran("next", NoEvent,
           [op |-> "scrollBy", left |-> scrollAmount(options, offsetWidth)],
           "none")
    /\ UNCHANGED <<options, offsetWidth, containerScrollLeft, isDragging, startX,
                   scrollLeft, currentBreakpoint, itemStyleWidth, scrollBehavior>>

scrollTo(index) ==
    /\ Ran("scrollTo", NoEvent,
           [op |-> "scrollTo",
            left |-> scrollToLeft(options, offsetWidth, Num(index))],
           "none")
    /\ UNCHANGED <<options, offsetWidth, containerScrollLeft, isDragging, startX,
                   scrollLeft, currentBreakpoint, itemStyleWidth, scrollBehavior>>

----------------------------------------------------------------------------
(* Specifications *)

\* the whole widget
Next ==
    \/ \E w \in 0..MaxWidth : ResizeContainer(w)
    \/ \E x \in 0..MaxScroll : HostScroll(x)
    \/ handleResize
    \/ \E config \in UpdateConfigs : update(config)
    \/ \E e \in Events : startDrag(e)
    \/ \E e \in Events : drag(e)
    \/ endDrag
    \/ prev
    \/ next
    \/ \E index \in 0..MaxIndex : scrollTo(index)

Spec == Init /\ [][Next]_vars

\* layout and navigation: the steps that read or write options, the item
\* width and the breakpoint; pointer steps touch none of these
NextLayout ==
    \/ \E w \in 0..MaxWidth : ResizeContainer(w)
    \/ \E x \in 0..MaxScroll : HostScroll(x)
    \/ handleResize
    \/ \E config \in UpdateConfigs : update(config)
    \/ prev
    \/ next
    \/ \E index \in 0..MaxIndex : scrollTo(index)

SpecLayout == Init /\ [][NextLayout]_vars

\* the drag lifecycle, at every constructed configuration and width
NextDrag ==
    \/ \E x \in 0..MaxScroll : HostScroll(x)
    \/ \E e \in Events : startDrag(e)
    \/ \E e \in Events : drag(e)
    \/ endDrag

SpecDrag == Init /\ [][NextDrag]_vars

\* breakpoint resolution over every configuration of the bounds
NextResolve ==
    \/ \E w \in 0..MaxWidth : ResizeContainer(w)
    \/ handleResize
    \/ next

SpecResolve == InitResolve /\ [][NextResolve]_vars

----------------------------------------------------------------------------
(* The specification's terms *)

\* the breakpoint keys the container width reaches
MatchingKeys(opts, w) ==
    IF opts.responsive = <<>> THEN {}
    ELSE {k \in DOMAIN opts.responsive[1] : k <= w}

LargestKey(K) == CHOOSE k \in K : \A j \in K : j <= k

\* a configuration of the data model: every count, in the base
\* configuration and in every override, is a positive integer
ValidItems(opts) ==
    /\ opts.itemsToShow >= 1
    /\ opts.itemsToScroll >= 1
    /\ opts.responsive # <<>> =>
          \A k \in DOMAIN opts.responsive[1] :
             \A f \in DOMAIN opts.responsive[1][k] : opts.responsive[1][k][f] >= 1

\* resolve(B, w).f: the field of the override of the largest matching key,
\* the base configuration's when there is no such key or no such field
Resolved(opts, w, f) ==
    LET K == MatchingKeys(opts, w)
    IN IF K = {} THEN opts[f]
       ELSE LET override == opts.responsive[1][LargestKey(K)]
            IN IF f \in DOMAIN override THEN override[f] ELSE opts[f]

----------------------------------------------------------------------------
(* Claims on breakpoint resolution, checked under SpecResolve *)

\* C1: when at least one breakpoint key is <= the container width, then over
\* the configurations of the data model (positive counts) getItemsToShow and
\* getItemsToScroll return the field of the override of the single largest
\* such key, and the base configuration's value when that override lacks the
\* field; the overrides of smaller matching keys never contribute.
C1_LargestMatchingKeyOnly ==
    (ValidItems(options) /\ MatchingKeys(options, offsetWidth) # {}) =>
        LET override ==
                options.responsive[1][LargestKey(MatchingKeys(options, offsetWidth))]
        IN /\ getItemsToShow(options, offsetWidth) =
                 (IF Has(override, "itemsToShow") THEN override.itemsToShow
                  ELSE options.itemsToShow)
           /\ getItemsToScroll(options, offsetWidth) =
                 (IF Has(override, "itemsToScroll") THEN override.itemsToScroll
                  ELSE options.itemsToScroll)

\* C1 witness: two keys match, the larger one's override sets itemsToShow
\* alone, the smaller one's sets an itemsToScroll other than the base's, and
\* handleResize has stored the larger key's itemsToShow with the base's
\* itemsToScroll.
C1_Witness ==
    /\ ValidItems(options)
    /\ Cardinality(MatchingKeys(options, offsetWidth)) = 2
    /\ LET K == MatchingKeys(options, offsetWidth)
           big == options.responsive[1][LargestKey(K)]
           small == options.responsive[1][LargestKey(K \ {LargestKey(K)})]
       IN /\ DOMAIN big = {"itemsToShow"}
          /\ Has(small, "itemsToScroll")
          /\ small.itemsToScroll # options.itemsToScroll
          /\ Has(small, "itemsToShow")
          /\ small.itemsToShow # big.itemsToShow
          /\ big.itemsToShow # options.itemsToShow
          /\ last = "handleResize"
          /\ currentBreakpoint =
                <<[itemsToShow |-> big.itemsToShow,
                   itemsToScroll |-> options.itemsToScroll]>>

\* C2: when there is no breakpoint map, or no key of it is <= the container
\* width, getItemsToShow and getItemsToScroll return the base
\* configuration's itemsToShow and itemsToScroll.
C2_NoMatchReturnsBase ==
    MatchingKeys(options, offsetWidth) = {} =>
        /\ getItemsToShow(options, offsetWidth) = options.itemsToShow
        /\ getItemsToScroll(options, offsetWidth) = options.itemsToScroll

\* C2 witness: a breakpoint map whose only key is above the width and whose
\* override differs from the base in both fields, after next() scrolled by
\* the base configuration's step.
C2_Witness ==
    /\ options.responsive # <<>>
    /\ DOMAIN options.responsive[1] # {}
    /\ MatchingKeys(options, offsetWidth) = {}
    /\ \A k \in DOMAIN options.responsive[1] :
          LET override == options.responsive[1][k]
          IN /\ DOMAIN override = Fields
             /\ override.itemsToShow >= 1
             /\ override.itemsToShow # options.itemsToShow
             /\ override.itemsToScroll # options.itemsToScroll
    /\ offsetWidth > 0
    /\ last = "next"
    /\ request = [op |-> "scrollBy",
                  left |-> RMul(RDiv(Num(offsetWidth), Num(options.itemsToShow)),
                                Num(options.itemsToScroll))]

\* C10: for every breakpoint map and container width, the descending
\* first-match loop and the ascending last-match loop select the same
\* breakpoint, or both select none, and over the configurations of the data
\* model (positive counts) the retired descending getItemsToScroll and the
\* live ascending getItemsToScroll return the same value.
C10_DescendingEqualsAscending ==
    options.responsive # <<>> =>
        LET keys == DOMAIN options.responsive[1]
        IN /\ FirstMatch(SortDesc(keys), 1, offsetWidth) =
                 LastMatch(SortAsc(keys), 1, offsetWidth, <<>>)
           /\ ValidItems(options) =>
                 getItemsToScrollDescending(options, offsetWidth) =
                    getItemsToScroll(options, offsetWidth)

\* C10 witness: two keys, only the smaller one matching, so that the
\* descending loop skips a key and the ascending loop breaks at it, and the
\* selected override's itemsToScroll is what next() scrolled by.
C10_Witness ==
    /\ ValidItems(options)
    /\ options.responsive # <<>>
    /\ Cardinality(DOMAIN options.responsive[1]) = 2
    /\ Cardinality(MatchingKeys(options, offsetWidth)) = 1
    /\ offsetWidth > 0
    /\ LET override ==
              options.responsive[1][LargestKey(MatchingKeys(options, offsetWidth))]
       IN /\ Has(override, "itemsToScroll")
          /\ override.itemsToScroll # options.itemsToScroll
          /\ last = "next"
          /\ request.left =
                RMul(RDiv(Num(offsetWidth),
                          Num(getItemsToShow(options, offsetWidth))),
                     Num(override.itemsToScroll))

----------------------------------------------------------------------------
(* Claims on snapping and the drag lifecycle, checked under SpecDrag *)

\* itemWidth(containerWidth, itemsToShow, gap) of the specification
SpecItemWidth(opts, w) ==
    RSub(RDiv(Num(w), Num(Resolved(opts, w, "itemsToShow"))), Num(opts.gap))

\* (itemWidth + gap) of the specification
SpecStep(opts, w) == RAdd(SpecItemWidth(opts, w), Num(opts.gap))

\* pageForOffset(scrollOffset, itemWidth, gap, itemsToScroll)
pageForOffset(scrollOffset, itemWidth, gap, n) ==
    MathRound(RDiv(scrollOffset, RMul(RAdd(itemWidth, gap), Num(n))))

\* offsetForPage(pageIndex, itemWidth, gap, itemsToShow)
offsetForPage(pageIndex, itemWidth, gap, n) ==
    RMul(RMul(pageIndex, Num(n)), RAdd(itemWidth, gap))

\* C3: on drag release the controller requests scrollTo of the page
\* pageForOffset gives for the current scroll offset,
\* round(offset / ((itemWidth + gap) * itemsToScroll)), that is the absolute
\* offset page * itemsToShow * (itemWidth + gap).  (Stated for positive
\* counts and a positive container width.)
C3_SnapToPageForOffset ==
    (last = "endDrag" /\ wasDragging /\ ValidItems(options) /\ offsetWidth > 0) =>
        LET itemWidth == SpecItemWidth(options, offsetWidth)
            page == pageForOffset(Num(containerScrollLeft), itemWidth,
                                  Num(options.gap),
                                  Resolved(options, offsetWidth, "itemsToScroll"))
        IN request =
              [op |-> "scrollTo",
               left |-> offsetForPage(page, itemWidth, Num(options.gap),
                           Resolved(options, offsetWidth, "itemsToShow"))]

\* C4: when the scroll offset is exactly the one scrollTo(p) requests for a
\* page index p, the snap on drag release requests that same offset again.
\* (Stated for positive counts and a positive container width.)
C4_SnapOfAlignedOffsetIsIdentity ==
    (/\ last = "endDrag"
     /\ wasDragging
     /\ ValidItems(options)
     /\ offsetWidth > 0
     /\ \E p \in 0..MaxIndex :
           scrollToLeft(options, offsetWidth, Num(p)) = Num(containerScrollLeft))
    => request = [op |-> "scrollTo", left |-> Num(containerScrollLeft)]

\* C6 as stated: a pointer-down received while Dragging leaves the recorded
\* start position and start scroll offset unchanged.
C6_PointerDownWhileDraggingIsNoOp ==
    [][(isDragging /\ last' = "startDrag") =>
          (startX' = startX /\ scrollLeft' = scrollLeft)]_vars

\* C6 amended: the drag lifecycle has exactly the states Idle and Dragging,
\* and a pointer-down received while Dragging is not a no-op: the widget
\* stays Dragging and, when the event yields a coordinate (a touch, or a
\* mouse event whose pageX is not 0), startX becomes that coordinate and
\* scrollLeft the container's current scroll offset; a mouse event at pageX 0
\* raises a TypeError and leaves both as they were.
C6_PointerDownWhileDraggingRestarts ==
    [][/\ isDragging' \in BOOLEAN
       /\ (isDragging /\ last' = "startDrag") =>
             /\ isDragging'
             /\ CanReadX(event') =>
                   /\ startX' = event'.x
                   /\ scrollLeft' = containerScrollLeft
                   /\ thrown' = "none"
             /\ ~CanReadX(event') =>
                   /\ startX' = startX
                   /\ scrollLeft' = scrollLeft
                   /\ thrown' = "TypeError"]_vars

\* C6 witness: a pointer-down that found the widget Dragging has recorded a
\* start position and a start offset other than the constructor's.
C6_Witness ==
    /\ last = "startDrag"
    /\ wasDragging
    /\ isDragging
    /\ thrown = "none"
    /\ startX = event.x
    /\ startX # 0
    /\ scrollLeft = containerScrollLeft
    /\ scrollLeft # 0

----------------------------------------------------------------------------
(* Claims on layout and navigation, checked under SpecLayout *)

\* C5: when a resize changes the effective itemsToShow, the scroll offset
\* handleResize assigns is page * ((newItemWidth + gap) * newItemsToShow),
\* where page = round(oldOffset / ((oldItemWidth + gap) * oldItemsToShow))
\* uses the item width and itemsToShow in effect before the change.
\* (Stated for positive counts, a positive container width and an old item
\* step, oldItemWidth + gap, that is positive.)
C5_ReconcileUsesOldItemWidth ==
    [][(/\ last' = "handleResize"
        /\ request'.op = "scrollLeft"
        /\ ValidItems(options)
        /\ offsetWidth > 0
        /\ RAdd(itemStyleWidth, Num(options.gap)).n > 0
        /\ getItemsToShow(options, offsetWidth) #
              prevItemsToShow(options, currentBreakpoint))
       => LET oldItemsToShow == prevItemsToShow(options, currentBreakpoint)
              page == MathRound(RDiv(Num(containerScrollLeft),
                          RMul(RAdd(itemStyleWidth, Num(options.gap)),
                               Num(oldItemsToShow))))
          IN request'.left =
                RMul(page, RMul(RAdd(itemStyleWidth', Num(options.gap)),
                                Num(getItemsToShow(options, offsetWidth))))]_vars

\* the steps that compute a layout from the configuration
UseSteps == {"update", "handleResize", "prev", "next", "scrollTo"}

\* the configuration as used at this width is invalid: a non-positive
\* count in the base configuration or in the matched override, or a
\* non-positive container width
InvalidConfiguration(opts, w) ==
    \/ w <= 0
    \/ opts.itemsToShow < 1
    \/ opts.itemsToScroll < 1
    \/ /\ MatchingKeys(opts, w) # {}
       /\ \E f \in DOMAIN opts.responsive[1][LargestKey(MatchingKeys(opts, w))] :
             opts.responsive[1][LargestKey(MatchingKeys(opts, w))][f] < 1

\* C7: a step that uses an invalid configuration raises InvalidConfiguration.
C7_InvalidConfigurationRaised ==
    (last \in UseSteps /\ InvalidConfiguration(options, offsetWidth)) =>
        thrown = "InvalidConfiguration"

\* C8: prev() and next() request a relative scroll of -scrollAmount and
\* +scrollAmount, scrollAmount = (itemWidth + gap) * effectiveItemsToScroll,
\* with itemWidth and effectiveItemsToScroll resolved for the current
\* container width (over the configurations of the data model).
C8_PrevNextScrollByResolvedAmount ==
    ValidItems(options) =>
        LET amount ==
                RMul(SpecStep(options, offsetWidth),
                     Num(Resolved(options, offsetWidth, "itemsToScroll")))
        IN /\ last = "prev" => request = [op |-> "scrollBy", left |-> RNeg(amount)]
           /\ last = "next" => request = [op |-> "scrollBy", left |-> amount]

\* C8 witness: next() ran where the matched override's itemsToScroll differs
\* from the base option and scrolled by the override's.
C8_Witness ==
    /\ ValidItems(options)
    /\ offsetWidth > 0
    /\ last = "next"
    /\ Resolved(options, offsetWidth, "itemsToScroll") # options.itemsToScroll
    /\ request.left =
          RMul(RDiv(Num(offsetWidth), Num(getItemsToShow(options, offsetWidth))),
               Num(Resolved(options, offsetWidth, "itemsToScroll")))

\* C9: once the resize handler has run, the item width applied to the items
\* is (containerWidth / effectiveItemsToShow) - gap for the current
\* container width.  (Stated for positive counts and a positive width.)
C9_WidthCurrentAfterResize ==
    (last = "handleResize" /\ ValidItems(options) /\ offsetWidth > 0) =>
        itemStyleWidth = SpecItemWidth(options, offsetWidth)

----------------------------------------------------------------------------
(* Claim on the pointer-up handler, checked under SpecDrag *)

\* C11: a snap-to-nearest scroll request is issued only by a pointer-up that
\* ends an active drag session: a pointer-up received while the widget is
\* Idle issues no scroll request and leaves the drag state Idle.  (Stated
\* for positive counts and a positive width.)
C11_PointerUpWhileIdleIssuesNothing ==
    (last = "endDrag" /\ ~wasDragging /\ ValidItems(options) /\ offsetWidth > 0) =>
        /\ request = NoRequest
        /\ ~isDragging

====
